---- MODULE Spec2Model ----
(***************************************************************************)
(* Model of stock_fundamentals.py: the fetch -> score -> recommend         *)
(* pipeline (get_fundamental_data, calculate_fundamental_score,            *)
(* get_recommendation, analyze_stock) and the module-level tables.         *)
(*                                                                         *)
(* Numbers.  A Python value is a record [kind, v]:                         *)
(*   kind = "num"  a finite float, v its value in fixed point;             *)
(*   kind = "inf"  float('inf');  kind = "nan"  float('nan');              *)
(*   kind = "none" None;  kind = "str"  a string (both non-numeric).       *)
(* Ratios (pe_ratio, pb_ratio, debt_to_equity, current_ratio,              *)
(* profit_margin, dividend_yield) are held in hundredths, so 15.0 is 1500  *)
(* and 0.10 is 10; market_cap is held in whole dollars.  overall_score is  *)
(* the exact quotient [num, den] of Python's true division.                *)
(***************************************************************************)
EXTENDS Integers, Sequences, FiniteSets, TLC

VARIABLES
    globals,   \* the module-level names: thresholds and label tables
    pc,        \* "call": an invocation is about to run; "done": it returned
    arg,       \* the input of the invocation
    ret,       \* what the invocation produced
    log        \* the invocations of analyze_stock so far, oldest first

vars == <<globals, pc, arg, ret, log>>

-----------------------------------------------------------------------------
(* Python values *)

Num(n) == [kind |-> "num", v |-> n]
Inf == [kind |-> "inf", v |-> 0]
NaN == [kind |-> "nan", v |-> 0]
NoneV == [kind |-> "none", v |-> 0]
StrV == [kind |-> "str", v |-> 0]

\* operands for which float comparison is defined
IsNumeric(x) == x.kind \in {"num", "inf", "nan"}

\* x < c and x > c for a value x and a finite threshold c (IEEE: every
\* comparison with nan is false, inf is above every finite number)
Lt(x, c) == x.kind = "num" /\ x.v < c

\* >= written for >
GtOrEqual(x, c) == x.kind = "inf" \/ (x.kind = "num" /\ x.v >= c)

Gt(x, c) == x.kind = "inf" \/ (x.kind = "num" /\ x.v > c)

-----------------------------------------------------------------------------
(* Module-level names *)

MetricKeys ==
    {"pe_ratio", "pb_ratio", "debt_to_equity", "current_ratio",
     "profit_margin", "market_cap", "dividend_yield"}

ScoreKeys == {"pe", "pb", "debt", "liquidity", "profitability", "size"}

METRIC_LABELS ==
    [pe_ratio |-> "P/E Ratio (Price to Earnings)",
     pb_ratio |-> "P/B Ratio (Price to Book)",
     debt_to_equity |-> "Debt to Equity Ratio",
     current_ratio |-> "Current Ratio (Liquidity)",
     profit_margin |-> "Profit Margins",
     market_cap |-> "Market Capitalization",
     dividend_yield |-> "Dividend Yield"]

SCORE_LABELS ==
    [pe |-> "Price to Earnings Analysis",
     pb |-> "Price to Book Analysis",
     debt |-> "Debt Level Analysis",
     liquidity |-> "Liquidity Analysis",
     profitability |-> "Profitability Analysis",
     size |-> "Company Size Analysis"]

GOOD_PE_RATIO == 1500
GOOD_PB_RATIO == 300
GOOD_DEBT_TO_EQUITY == 200
GOOD_CURRENT_RATIO == 150
GOOD_PROFIT_MARGIN == 10
MIN_MARKET_CAP == 1000000000

\* the literals 1.0 and 0 of the liquidity and profitability rules
BAD_CURRENT_RATIO == 100
BAD_PROFIT_MARGIN == 0

ModuleGlobals ==
    [GOOD_PE_RATIO |-> GOOD_PE_RATIO,
     GOOD_PB_RATIO |-> GOOD_PB_RATIO,
     GOOD_DEBT_TO_EQUITY |-> GOOD_DEBT_TO_EQUITY,
     GOOD_CURRENT_RATIO |-> GOOD_CURRENT_RATIO,
     GOOD_PROFIT_MARGIN |-> GOOD_PROFIT_MARGIN,
     MIN_MARKET_CAP |-> MIN_MARKET_CAP,
     METRIC_LABELS |-> METRIC_LABELS,
     SCORE_LABELS |-> SCORE_LABELS]

-----------------------------------------------------------------------------
(* calculate_fundamental_score *)

\* 1 if good else (-1 if bad else 0)
Ternary(good, bad) == IF good THEN 1 ELSE IF bad THEN -1 ELSE 0

\* the six assignments scores[...] = ..., thresholds read from the globals g
ScoreOf(g, metrics, key) ==
    CASE key = "pe" ->
           Ternary(Lt(metrics.pe_ratio, g.GOOD_PE_RATIO),
                   Gt(metrics.pe_ratio, g.GOOD_PE_RATIO * 2))
      [] key = "pb" ->
           Ternary(Lt(metrics.pb_ratio, g.GOOD_PB_RATIO),
                   Gt(metrics.pb_ratio, g.GOOD_PB_RATIO * 2))
      [] key = "debt" ->
           Ternary(Lt(metrics.debt_to_equity, g.GOOD_DEBT_TO_EQUITY),
                   Gt(metrics.debt_to_equity, (g.GOOD_DEBT_TO_EQUITY * 15) \div 10))
      [] key = "liquidity" ->
           Ternary(Gt(metrics.current_ratio, g.GOOD_CURRENT_RATIO),
                   Lt(metrics.current_ratio, BAD_CURRENT_RATIO))
      [] key = "profitability" ->
           Ternary(Gt(metrics.profit_margin, g.GOOD_PROFIT_MARGIN),
                   Lt(metrics.profit_margin, BAD_PROFIT_MARGIN))
      [] key = "size" ->
           IF Gt(metrics.market_cap, g.MIN_MARKET_CAP) THEN 1 ELSE -1

\* the metrics the six rules compare; dividend_yield is not among them
ScoredFields ==
    {"pe_ratio", "pb_ratio", "debt_to_equity", "current_ratio",
     "profit_margin", "market_cap"}

\* the keys the function writes into scores
ScoresWritten == ScoreKeys

\* sum(scores.values())
RECURSIVE SumValues(_, _)
SumValues(f, keys) ==
    IF keys = {} THEN 0
    ELSE LET k == CHOOSE x \in keys : TRUE
         IN  f[k] + SumValues(f, keys \ {k})

\* the sum divided by len(metrics), the seven-key dict, for len(scores)
TotalScoreOverMetrics(scores) ==
    [num |-> SumValues(scores, DOMAIN scores), den |-> Cardinality(MetricKeys)]

\* sum(scores.values()) / len(scores), as an exact quotient
TotalScore(scores) ==
    [num |-> SumValues(scores, DOMAIN scores), den |-> Cardinality(DOMAIN scores)]

\* the input dict with its inf sentinels overwritten by 0.0 in place
MetricsNormalisedInPlace(metrics) ==
    [k \in DOMAIN metrics |-> IF metrics[k] = Inf THEN Num(0) ELSE metrics[k]]

\* the input dict as the function leaves it: no statement assigns to it
MetricsAfterScoring(metrics) == metrics

\* A comparison of a non-numeric operand with a float raises TypeError; all
\* six scored fields are compared, so one such field anywhere is enough.
calculate_fundamental_score(g, metrics) ==
    IF \E f \in ScoredFields : ~IsNumeric(metrics[f])
    THEN [raised |-> TRUE, exc |-> "TypeError",
          metrics |-> MetricsAfterScoring(metrics)]
    ELSE LET scores == [k \in ScoresWritten |-> ScoreOf(g, metrics, k)]
         IN  [raised |-> FALSE,
              overall_score |-> TotalScore(scores),
              scores |-> scores,
              metrics |-> MetricsAfterScoring(metrics)]

-----------------------------------------------------------------------------
(* get_recommendation *)

\* score >= 0.5 and score <= -0.3 on the quotient num/den, den > 0

\* > written for >=
AboveHalf(score) == score.num * 2 > score.den

AtLeastHalf(score) == score.num * 2 >= score.den

\* the SELL cutoff mirrored to -0.5
AtMostMinusHalf(score) == score.num * 2 <= 0 - score.den

AtMostMinusThreeTenths(score) == score.num * 10 <= (-3) * score.den

get_recommendation(score) ==
    IF AtLeastHalf(score) THEN "BUY"
    ELSE IF AtMostMinusThreeTenths(score) THEN "SELL"
    ELSE "HOLD"

-----------------------------------------------------------------------------
(* Scorer called on its own *)

PeVals == {Num(1499), Num(1500), Num(3000), Num(3001), Inf, NaN}
PbVals == {Num(299), Num(300), Num(600), Num(601), Inf, NaN}
DebtVals == {Num(199), Num(200), Num(300), Num(301), Inf, NaN}
CurrentVals == {Num(0), Num(99), Num(100), Num(150), Num(151), NaN}
MarginVals == {Num(-1), Num(0), Num(10), Num(11), NaN}
CapVals == {Num(0), Num(1000000000), Num(1000000001), NaN}
DivVals == {Num(0), Num(2)}

MetricSets ==
    [pe_ratio : PeVals, pb_ratio : PbVals, debt_to_equity : DebtVals,
     current_ratio : CurrentVals, profit_margin : MarginVals,
     market_cap : CapVals, dividend_yield : DivVals]

InitScore ==
    /\ globals = ModuleGlobals
    /\ pc = "call"
    /\ arg \in [metrics : MetricSets]
    /\ ret = [fn |-> "none"]
    /\ log = <<>>

CalculateFundamentalScore ==
    /\ pc = "call"
    /\ "metrics" \in DOMAIN arg
    /\ ret' = [fn |-> "calculate_fundamental_score",
               out |-> calculate_fundamental_score(globals, arg.metrics)]
    /\ pc' = "done"
    /\ UNCHANGED <<globals, arg, log>>

NextScore == CalculateFundamentalScore

SpecScore == InitScore /\ [][NextScore]_vars

-----------------------------------------------------------------------------
(* Recommender called on its own *)

\* scores are tried in ten-thousandths from -MaxScore to MaxScore, and as
\* every mean k/6 of six ternary scores
MaxScore == 12000

ScoreInputs ==
    {[num |-> n, den |-> 10000] : n \in (0 - MaxScore) .. MaxScore}
        \cup {[num |-> k, den |-> 6] : k \in -6 .. 6}

InitRec ==
    /\ globals = ModuleGlobals
    /\ pc = "call"
    /\ arg \in [score : ScoreInputs]
    /\ ret = [fn |-> "none"]
    /\ log = <<>>

GetRecommendation ==
    /\ pc = "call"
    /\ "score" \in DOMAIN arg
    /\ ret' = [fn |-> "get_recommendation", out |-> get_recommendation(arg.score)]
    /\ pc' = "done"
    /\ UNCHANGED <<globals, arg, log>>

NextRec == GetRecommendation

SpecRec == InitRec /\ [][NextRec]_vars

-----------------------------------------------------------------------------
(* get_fundamental_data *)

\* the provider's name of each metric
RawKey ==
    [pe_ratio |-> "forwardPE",
     pb_ratio |-> "priceToBook",
     debt_to_equity |-> "debtToEquity",
     current_ratio |-> "currentRatio",
     profit_margin |-> "profitMargins",
     market_cap |-> "marketCap",
     dividend_yield |-> "dividendYield"]

\* 0.0 as the default of every field
DefaultZero == [k \in MetricKeys |-> Num(0)]

\* the second argument of each info.get
Default ==
    [pe_ratio |-> Inf,
     pb_ratio |-> Inf,
     debt_to_equity |-> Inf,
     current_ratio |-> Num(0),
     profit_margin |-> Num(0),
     market_cap |-> Num(0),
     dividend_yield |-> Num(0)]

\* dict.get(key, default)
Get(info, key, default) == IF key \in DOMAIN info THEN info[key] ELSE default

\* {}
EmptyDict == [k \in {} |-> NoneV]

\* an info without any key taken for no data
MetricsFromOrEmpty(info) ==
    IF DOMAIN info = {} THEN EmptyDict
    ELSE [k \in MetricKeys |->
              IF RawKey[k] \in DOMAIN info THEN info[RawKey[k]] ELSE Default[k]]

\* the dict literal of the return statement
MetricsFrom(info) == [k \in MetricKeys |-> Get(info, RawKey[k], Default[k])]

\* the classes "except Exception" catches, among those a provider call
\* raises: requests' ConnectionError and HTTPError, json's JSONDecodeError
\* (a ValueError), KeyError, and the AttributeError of info.get when info
\* is no dict
ExceptionClasses ==
    {"ConnectionError", "HTTPError", "KeyError", "ValueError", "AttributeError"}

\* except ConnectionError written for except Exception
CaughtConnectionOnly(exc) == exc = "ConnectionError"
Caught(exc) == exc \in ExceptionClasses

\* A response is what yf.Ticker(ticker).info and the info.get calls do
\* inside the try block: they raise exc, or info is a dict.  A caught
\* exception ends in return {}; any other would leave the function.
get_fundamental_data(ticker, response) ==
    IF response.kind = "raise"
    THEN IF Caught(response.exc)
         THEN [raised |-> FALSE, value |-> EmptyDict]
         ELSE [raised |-> TRUE, exc |-> response.exc]
    ELSE [raised |-> FALSE, value |-> MetricsFrom(response.info)]

-----------------------------------------------------------------------------
(* analyze_stock *)

\* not metrics
Falsy(d) == DOMAIN d = {}

\* the two calls that follow the fetch: the Scorer, then the Recommender on
\* its overall score; an exception of the Scorer passes through
ScoreAndRecommend(g, metrics) ==
    LET sc == calculate_fundamental_score(g, metrics)
    IN  IF sc.raised THEN sc
        ELSE [raised |-> FALSE,
              metrics |-> sc.metrics,
              scores |-> sc.scores,
              overall_score |-> sc.overall_score,
              recommendation |-> get_recommendation(sc.overall_score)]

\* The outcome is None, the results dict, or an exception passing through;
\* calls lists the functions of the pipeline that were invoked, in order.
analyze_stock(g, ticker, response) ==
    LET fetched == get_fundamental_data(ticker, response)
    IN  IF fetched.raised
        THEN [kind |-> "raise", exc |-> fetched.exc,
              calls |-> <<"get_fundamental_data">>]
        ELSE IF Falsy(fetched.value)
        THEN [kind |-> "none", calls |-> <<"get_fundamental_data">>]
        ELSE LET sr == ScoreAndRecommend(g, fetched.value)
             IN  IF sr.raised
                 THEN [kind |-> "raise", exc |-> sr.exc,
                       calls |-> <<"get_fundamental_data",
                                   "calculate_fundamental_score">>]
                 ELSE [kind |-> "result",
                       value |-> [ticker |-> ticker,
                                  metrics |-> sr.metrics,
                                  scores |-> sr.scores,
                                  overall_score |-> sr.overall_score,
                                  recommendation |-> sr.recommendation],
                       calls |-> <<"get_fundamental_data",
                                   "calculate_fundamental_score",
                                   "get_recommendation">>]

-----------------------------------------------------------------------------
(* The pipeline on one provider response *)

Tickers == {"AAPL", "ZZZZ"}

\* why the provider call raised, and with what
Failures ==
    {[cause |-> "network", exc |-> "ConnectionError"],
     [cause |-> "unknown_ticker", exc |-> "HTTPError"],
     [cause |-> "unknown_ticker", exc |-> "KeyError"],
     [cause |-> "malformed", exc |-> "ValueError"],
     [cause |-> "malformed", exc |-> "AttributeError"]}

\* marks a key the provider's dict does not hold
Absent == [kind |-> "absent", v |-> 0]

\* a dict from a choice of Absent or a value for each provider key
InfoOf(c) == [k \in {x \in DOMAIN c : c[x] # Absent} |-> c[k]]

InfoChoices ==
    [forwardPE : {Absent, Num(1000), Num(5000), NoneV, StrV},
     priceToBook : {Absent, Num(200), Num(1000), NoneV},
     debtToEquity : {Absent, Num(100), Num(500), NoneV},
     currentRatio : {Absent, Num(200), Num(50), NoneV},
     profitMargins : {Absent, Num(20), Num(-10), NoneV},
     marketCap : {Absent, Num(2000000000), Num(500000000), NoneV},
     dividendYield : {Absent, Num(0), Num(2), NoneV}]

Responses ==
    {[kind |-> "raise", cause |-> f.cause, exc |-> f.exc] : f \in Failures}
        \cup {[kind |-> "record", info |-> InfoOf(c)] : c \in InfoChoices}

Init ==
    /\ globals = ModuleGlobals
    /\ pc = "call"
    /\ arg \in [ticker : Tickers, response : Responses]
    /\ ret = [fn |-> "none"]
    /\ log = <<>>

GetFundamentalData ==
    /\ pc = "call"
    /\ "response" \in DOMAIN arg
    /\ ret' = [fn |-> "get_fundamental_data",
               out |-> get_fundamental_data(arg.ticker, arg.response)]
    /\ pc' = "done"
    /\ UNCHANGED <<globals, arg, log>>

AnalyzeStock ==
    /\ pc = "call"
    /\ "response" \in DOMAIN arg
    /\ ret' = [fn |-> "analyze_stock",
               out |-> analyze_stock(globals, arg.ticker, arg.response)]
    /\ pc' = "done"
    /\ UNCHANGED <<globals, arg, log>>

Next == GetFundamentalData \/ AnalyzeStock

Spec == Init /\ [][Next]_vars

-----------------------------------------------------------------------------
(* Scorer and Recommender on two MetricSets, the second at least as good *)

\* b is the same value as a, or a number not above a (inf is above all)
NotHigher(b, a) ==
    \/ b = a
    \/ b.kind = "num" /\ (a.kind = "inf" \/ (a.kind = "num" /\ b.v <= a.v))

\* b is the same value as a, or a number not below a
NotLower(b, a) ==
    \/ b = a
    \/ a.kind = "num" /\ (b.kind = "inf" \/ (b.kind = "num" /\ b.v >= a.v))

\* <<a, b>> over vals with b at least as good as a
PairsNotHigher(vals) == {p \in vals \X vals : NotHigher(p[2], p[1])}
PairsNotLower(vals) == {p \in vals \X vals : NotLower(p[2], p[1])}

PairChoices ==
    [pe_ratio : PairsNotHigher({Num(1499), Num(1500), Num(3001), Inf, NaN}),
     pb_ratio : PairsNotHigher({Num(299), Num(600), Num(601)}),
     debt_to_equity : PairsNotHigher({Num(199), Num(300), Inf}),
     current_ratio : PairsNotLower({Num(99), Num(100), Num(151)}),
     profit_margin : PairsNotLower({Num(-1), Num(0), Num(11)}),
     market_cap : PairsNotLower({Num(1000000000), Num(1000000001)}),
     dividend_yield : {Num(0), Num(2)} \X {Num(0), Num(2)}]

Side(c, i) == [k \in MetricKeys |-> c[k][i]]

InitMono ==
    /\ globals = ModuleGlobals
    /\ pc = "call"
    /\ arg \in {[a |-> Side(c, 1), b |-> Side(c, 2)] : c \in PairChoices}
    /\ ret = [fn |-> "none"]
    /\ log = <<>>

ScorePair ==
    /\ pc = "call"
    /\ "a" \in DOMAIN arg
    /\ ret' = [fn |-> "score_and_recommend",
               a |-> ScoreAndRecommend(globals, arg.a),
               b |-> ScoreAndRecommend(globals, arg.b)]
    /\ pc' = "done"
    /\ UNCHANGED <<globals, arg, log>>

NextMono == ScorePair

SpecMono == InitMono /\ [][NextMono]_vars

-----------------------------------------------------------------------------
(* analyze_stock invoked again and again *)

MaxCalls == 3

GoodInfo ==
    [forwardPE |-> Num(1000), priceToBook |-> Num(200), debtToEquity |-> Num(100),
     currentRatio |-> Num(200), profitMargins |-> Num(20),
     marketCap |-> Num(2000000000), dividendYield |-> Num(2)]

BadInfo ==
    [forwardPE |-> Num(5000), priceToBook |-> Num(1000), debtToEquity |-> Num(500),
     currentRatio |-> Num(50), profitMargins |-> Num(-10),
     marketCap |-> Num(500000000), dividendYield |-> Num(0)]

SeqResponses ==
    {[kind |-> "raise", cause |-> "network", exc |-> "ConnectionError"],
     [kind |-> "record", info |-> EmptyDict],
     [kind |-> "record", info |-> GoodInfo],
     [kind |-> "record", info |-> BadInfo],
     [kind |-> "record", info |-> [forwardPE |-> NoneV]]}

InitSeq ==
    /\ globals = ModuleGlobals
    /\ pc = "call"
    /\ arg = [ticker |-> "", response |-> [kind |-> "none"]]
    /\ ret = [fn |-> "none"]
    /\ log = <<>>

AnalyzeNext ==
    /\ Len(log) < MaxCalls
    /\ \E t \in Tickers, r \in SeqResponses :
           LET out == analyze_stock(globals, t, r)
           IN  /\ arg' = [ticker |-> t, response |-> r]
               /\ ret' = [fn |-> "analyze_stock", out |-> out]
               /\ log' = Append(log, [ticker |-> t, response |-> r, out |-> out])
    /\ pc' = "done"
    /\ UNCHANGED globals

NextSeq == AnalyzeNext

SpecSeq == InitSeq /\ [][NextSeq]_vars

-----------------------------------------------------------------------------
(* Properties *)

ScorerDone == pc = "done" /\ ret.fn = "calculate_fundamental_score"
RecommenderDone == pc = "done" /\ ret.fn = "get_recommendation"
FetcherDone == pc = "done" /\ ret.fn = "get_fundamental_data"
AnalysisDone == pc = "done" /\ ret.fn = "analyze_stock"

\* the comparisons of the threshold table, on values
Below(x, c) == x.kind = "num" /\ x.v < c
Above(x, c) == x.kind = "inf" \/ (x.kind = "num" /\ x.v > c)
TableScore(good, bad) == IF good THEN 1 ELSE IF bad THEN -1 ELSE 0

\* C1: calculate_fundamental_score gives each category the score of the
\* threshold table (15/30, 3/6, 2/3, 1.5/1.0, 0.10/0, 1e9), every comparison
\* strict: a value on a threshold scores 0, market_cap 1,000,000,000 scores
\* -1 and 1,000,000,001 scores 1, and size is never 0.
C1_ThresholdTable ==
    ScorerDone =>
        LET m == arg.metrics
            s == ret.out.scores
        IN  /\ ~ret.out.raised
            /\ s.pe = TableScore(Below(m.pe_ratio, 1500), Above(m.pe_ratio, 3000))
            /\ s.pb = TableScore(Below(m.pb_ratio, 300), Above(m.pb_ratio, 600))
            /\ s.debt = TableScore(Below(m.debt_to_equity, 200),
                                   Above(m.debt_to_equity, 300))
            /\ s.liquidity = TableScore(Above(m.current_ratio, 150),
                                        Below(m.current_ratio, 100))
            /\ s.profitability = TableScore(Above(m.profit_margin, 10),
                                            Below(m.profit_margin, 0))
            /\ s.size = IF Above(m.market_cap, 1000000000) THEN 1 ELSE -1
            /\ m.pe_ratio \in {Num(1500), Num(3000)} => s.pe = 0
            /\ m.pb_ratio \in {Num(300), Num(600)} => s.pb = 0
            /\ m.debt_to_equity \in {Num(200), Num(300)} => s.debt = 0
            /\ m.current_ratio \in {Num(150), Num(100)} => s.liquidity = 0
            /\ m.profit_margin \in {Num(10), Num(0)} => s.profitability = 0
            /\ m.market_cap = Num(1000000000) => s.size = -1
            /\ m.market_cap = Num(1000000001) => s.size = 1
            /\ s.size # 0

C1_Witness ==
    /\ ScorerDone
    /\ arg.metrics.pe_ratio = Num(3000)
    /\ arg.metrics.debt_to_equity = Num(300)
    /\ arg.metrics.current_ratio = Num(150)
    /\ arg.metrics.profit_margin = Num(10)
    /\ arg.metrics.market_cap = Num(1000000000)
    /\ ret.out.scores.pe = 0
    /\ ret.out.scores.debt = 0
    /\ ret.out.scores.liquidity = 0
    /\ ret.out.scores.profitability = 0
    /\ ret.out.scores.size = -1

\* C2: for every valid MetricSet, sentinels included, the ScoreSet has exactly
\* the keys pe, pb, debt, liquidity, profitability, size, every value is in
\* {-1, 0, 1}, and overall_score is the sum of the six values divided by six,
\* which lies in [-1, 1].
C2_ScoreSetShape ==
    ScorerDone =>
        LET s == ret.out.scores
            o == ret.out.overall_score
        IN  /\ ~ret.out.raised
            /\ DOMAIN s = {"pe", "pb", "debt", "liquidity", "profitability", "size"}
            /\ \A k \in DOMAIN s : s[k] \in {-1, 0, 1}
            /\ o.den > 0
            /\ o.num * 6 =
                   (s.pe + s.pb + s.debt + s.liquidity + s.profitability + s.size)
                       * o.den
            /\ 0 - o.den <= o.num
            /\ o.num <= o.den

C2_Witness ==
    /\ ScorerDone
    /\ arg.metrics.pe_ratio = Inf
    /\ arg.metrics.pb_ratio = Inf
    /\ arg.metrics.debt_to_equity = Inf
    /\ arg.metrics.current_ratio = Num(0)
    /\ arg.metrics.profit_margin = Num(0)
    /\ arg.metrics.market_cap = Num(0)
    /\ ret.out.overall_score = [num |-> -5, den |-> 6]

\* C3: get_recommendation returns BUY if score >= 0.5, SELL if score <= -0.3,
\* HOLD otherwise, both cutoffs inclusive (0.5 BUY, 0.4999 HOLD, -0.3 SELL,
\* -0.2999 HOLD), and one of the three labels for every input.
C3_Recommendation ==
    RecommenderDone =>
        LET n == arg.score.num
            d == arg.score.den
        IN  /\ ret.out \in {"BUY", "SELL", "HOLD"}
            /\ d = 10000 =>
                   ret.out = IF n >= 5000 THEN "BUY"
                             ELSE IF n <= -3000 THEN "SELL" ELSE "HOLD"
            /\ d = 6 =>
                   ret.out = IF n >= 3 THEN "BUY"
                             ELSE IF n <= -2 THEN "SELL" ELSE "HOLD"
            /\ arg.score = [num |-> 5000, den |-> 10000] => ret.out = "BUY"
            /\ arg.score = [num |-> 4999, den |-> 10000] => ret.out = "HOLD"
            /\ arg.score = [num |-> -3000, den |-> 10000] => ret.out = "SELL"
            /\ arg.score = [num |-> -2999, den |-> 10000] => ret.out = "HOLD"

C3_Witness ==
    /\ RecommenderDone
    /\ arg.score = [num |-> 5000, den |-> 10000]
    /\ ret.out = "BUY"

\* one field of the returned MetricSet: the sentinel if the provider key is
\* missing, the provider's value otherwise
FieldRule(info, value, metric, raw, sentinel) ==
    value[metric] = IF raw \in DOMAIN info THEN info[raw] ELSE sentinel

\* C4: for a provider record omitting any subset of the seven raw fields,
\* get_fundamental_data returns all seven keys, each omitted field holding its
\* sentinel (inf for pe_ratio, pb_ratio, debt_to_equity; 0 for current_ratio,
\* profit_margin, market_cap, dividend_yield) and each present field passed
\* through; a record missing debt-to-equity is scored debt = -1.
C4_SentinelDefaults ==
    /\ (FetcherDone /\ arg.response.kind = "record") =>
           LET info == arg.response.info
               value == ret.out.value
           IN  /\ ~ret.out.raised
               /\ DOMAIN value =
                      {"pe_ratio", "pb_ratio", "debt_to_equity", "current_ratio",
                       "profit_margin", "market_cap", "dividend_yield"}
               /\ FieldRule(info, value, "pe_ratio", "forwardPE", Inf)
               /\ FieldRule(info, value, "pb_ratio", "priceToBook", Inf)
               /\ FieldRule(info, value, "debt_to_equity", "debtToEquity", Inf)
               /\ FieldRule(info, value, "current_ratio", "currentRatio", Num(0))
               /\ FieldRule(info, value, "profit_margin", "profitMargins", Num(0))
               /\ FieldRule(info, value, "market_cap", "marketCap", Num(0))
               /\ FieldRule(info, value, "dividend_yield", "dividendYield", Num(0))
               /\ "debtToEquity" \notin DOMAIN info =>
                      ScoreOf(globals, value, "debt") = -1
    /\ (/\ AnalysisDone
        /\ arg.response.kind = "record"
        /\ "debtToEquity" \notin DOMAIN arg.response.info
        /\ ret.out.kind = "result") =>
           ret.out.value.scores.debt = -1

C4_Witness ==
    /\ FetcherDone
    /\ arg.response.kind = "record"
    /\ DOMAIN arg.response.info = {"forwardPE", "marketCap"}
    /\ ret.out.value.pe_ratio = arg.response.info["forwardPE"]
    /\ ret.out.value.debt_to_equity = Inf
    /\ ret.out.value.current_ratio = Num(0)

\* C5: when the provider call fails (network failure, unknown ticker,
\* malformed response), get_fundamental_data returns the empty result and
\* does not raise, the same result whatever the cause.
C5_FailureGivesEmpty ==
    (FetcherDone /\ arg.response.kind = "raise") =>
        /\ arg.response.cause \in {"network", "unknown_ticker", "malformed"}
        /\ ~ret.out.raised
        /\ DOMAIN ret.out.value = {}

C5_Witness ==
    /\ FetcherDone
    /\ arg.response.kind = "raise"
    /\ arg.response.cause = "malformed"
    /\ ~ret.out.raised
    /\ DOMAIN ret.out.value = {}

\* C6: analyze_stock returns None exactly when get_fundamental_data yields no
\* data, and then neither the Scorer nor the Recommender is invoked; otherwise
\* it returns an AnalysisResult with the input ticker, the fetched MetricSet,
\* the scores and overall_score of calculate_fundamental_score(metrics) and
\* the recommendation of get_recommendation(overall_score).
C6_OrchestratorContract ==
    AnalysisDone =>
        LET fetched == get_fundamental_data(arg.ticker, arg.response)
            nodata == ~fetched.raised /\ DOMAIN fetched.value = {}
        IN  /\ (ret.out.kind = "none") <=> nodata
            /\ nodata => ret.out.calls = <<"get_fundamental_data">>
            /\ ~nodata =>
                   /\ ret.out.kind = "result"
                   /\ ret.out.value.ticker = arg.ticker
                   /\ ret.out.value.metrics = fetched.value
                   /\ LET sc == calculate_fundamental_score(globals, fetched.value)
                      IN  /\ ret.out.value.scores = sc.scores
                          /\ ret.out.value.overall_score = sc.overall_score
                          /\ ret.out.value.recommendation =
                                 get_recommendation(sc.overall_score)

\* C7: for every non-empty MetricSet get_fundamental_data can return (each
\* field absent, a number, or non-numeric/null), calculate_fundamental_score
\* and get_recommendation complete, so analyze_stock never ends in an
\* exception.
C7_PipelineNeverRaises ==
    AnalysisDone => ret.out.kind # "raise"

\* C9: get_fundamental_data returns the empty result only when the provider
\* call raises; for every record, even one with none of the seven fields, the
\* MetricSet has seven keys and analyze_stock does not return None.  For the
\* record with all seven fields absent the result is pe = -1, pb = -1,
\* debt = -1, liquidity = -1, profitability = 0, size = -1, overall_score
\* -5/6, recommendation SELL.
C9_EmptyOnlyOnRaise ==
    /\ FetcherDone =>
           /\ (~ret.out.raised /\ DOMAIN ret.out.value = {}) =>
                  arg.response.kind = "raise"
           /\ arg.response.kind = "record" =>
                  /\ ~ret.out.raised
                  /\ Cardinality(DOMAIN ret.out.value) = 7
    /\ (AnalysisDone /\ arg.response.kind = "record") =>
           /\ ret.out.kind # "none"
           /\ DOMAIN arg.response.info = {} =>
                  /\ ret.out.kind = "result"
                  /\ ret.out.value.scores =
                         [pe |-> -1, pb |-> -1, debt |-> -1, liquidity |-> -1,
                          profitability |-> 0, size |-> -1]
                  /\ ret.out.value.overall_score = [num |-> -5, den |-> 6]
                  /\ ret.out.value.recommendation = "SELL"

C9_Witness ==
    /\ AnalysisDone
    /\ arg.response.kind = "record"
    /\ DOMAIN arg.response.info = {}
    /\ ret.out.kind = "result"
    /\ ret.out.value.recommendation = "SELL"

PairDone == pc = "done" /\ ret.fn = "score_and_recommend"

Rank(label) == CASE label = "SELL" -> 0 [] label = "HOLD" -> 1 [] label = "BUY" -> 2

SixSum(s) == s.pe + s.pb + s.debt + s.liquidity + s.profitability + s.size

\* BUY exactly for sums >= 3, SELL exactly for sums <= -2, HOLD for -1 .. 2,
\* the overall score being the sum over six
SumRule(r) ==
    /\ r.overall_score.num * 6 = SixSum(r.scores) * r.overall_score.den
    /\ (r.recommendation = "BUY") <=> (SixSum(r.scores) >= 3)
    /\ (r.recommendation = "SELL") <=> (SixSum(r.scores) <= -2)
    /\ (r.recommendation = "HOLD") <=> (SixSum(r.scores) \in -1 .. 2)

\* C10: if B is at least as good as A in every scored field, every category
\* score and the overall score of B are >= those of A and B's recommendation
\* is not lower in SELL < HOLD < BUY; the recommendation is BUY exactly when
\* the six scores sum to at least 3, SELL exactly when they sum to at most -2,
\* HOLD for sums -1 .. 2; dividend_yield influences nothing.
C10_Monotone ==
    PairDone =>
        /\ ~ret.a.raised
        /\ ~ret.b.raised
        /\ \A k \in {"pe", "pb", "debt", "liquidity", "profitability", "size"} :
               ret.b.scores[k] >= ret.a.scores[k]
        /\ ret.b.overall_score.num * ret.a.overall_score.den
               >= ret.a.overall_score.num * ret.b.overall_score.den
        /\ Rank(ret.b.recommendation) >= Rank(ret.a.recommendation)
        /\ SumRule(ret.a)
        /\ SumRule(ret.b)
        /\ (\A f \in MetricKeys \ {"dividend_yield"} : arg.a[f] = arg.b[f]) =>
               /\ ret.a.scores = ret.b.scores
               /\ ret.a.overall_score = ret.b.overall_score
               /\ ret.a.recommendation = ret.b.recommendation

C10_Witness ==
    /\ PairDone
    /\ arg.a.dividend_yield # arg.b.dividend_yield
    /\ SixSum(ret.a.scores) = -2
    /\ ret.a.recommendation = "SELL"
    /\ SixSum(ret.b.scores) = 3
    /\ ret.b.recommendation = "BUY"

\* C8: over any sequence of analyze_stock invocations the thresholds and the
\* label tables keep their values, the Scorer leaves the fetched MetricSet as
\* it was, and invocations with the same ticker and provider response have
\* equal results whatever was analysed in between.
C8_Stateless ==
    /\ globals = ModuleGlobals
    /\ \A i \in DOMAIN log :
           log[i].out.kind = "result" =>
               log[i].out.value.metrics =
                   get_fundamental_data(log[i].ticker, log[i].response).value
    /\ \A i, j \in DOMAIN log :
           (log[i].ticker = log[j].ticker /\ log[i].response = log[j].response) =>
               log[i].out = log[j].out

C8_Witness ==
    /\ Len(log) = 3
    /\ log[1].ticker = log[3].ticker
    /\ log[1].response = log[3].response
    /\ log[2].response # log[1].response
    /\ log[1].out.kind = "result"
    /\ log[3].out = log[1].out
    /\ globals = ModuleGlobals

====
